---- MODULE Spec2Model ----
(***************************************************************************)
(* Cardinal: the plan-to-hint compilers (batch_executor.py and              *)
(* plan_to_hints.py), the batch worker (worker_execute) and the parallel    *)
(* orchestrator (process_csv) over a ProcessPoolExecutor.                    *)
(*                                                                         *)
(* Two specifications:                                                     *)
(*   Spec       process_csv: the input table, the pool, the workers, the   *)
(*              futures and the collecting loop.                           *)
(*   SpecParse  the two plan compilers applied to bounded plan payloads.   *)
(***************************************************************************)
EXTENDS Integers, Sequences, FiniteSets, TLC

(***************************************************************************)
(* Python / JSON values.  Every value is a record tagged by j.             *)
(***************************************************************************)
None == [j |-> "null"]
\* the float NaN pandas puts in an empty CSV cell
NaN == [j |-> "nan"]
Num(n) == [j |-> "num", v |-> n]
Str(s) == [j |-> "str", s |-> s]
List(xs) == [j |-> "list", items |-> xs]
Obj(f) == [j |-> "obj", f |-> f]
\* a str holding serialized text: json.loads gives val when the text is valid JSON
Text(valid, val) == [j |-> "text", valid |-> valid, val |-> val]

\* the outcome of a call: a returned value or a raised exception
Ret(v) == [raised |-> FALSE, exc |-> "", val |-> v]
Raise(e) == [raised |-> TRUE, exc |-> e, val |-> None]

\* Python truthiness (bool(v))
Truthy(v) ==
  CASE v.j = "null" -> FALSE
    [] v.j = "nan" -> TRUE
    [] v.j = "num" -> v.v # 0
    [] v.j = "str" -> v.s # ""
    [] v.j = "list" -> v.items # <<>>
    [] v.j = "obj" -> DOMAIN v.f # {}
    [] v.j = "text" -> TRUE

\* a or b
PyOr(a, b) == IF Truthy(a) THEN a ELSE b

\* dict.get(k, default)
Get(o, k, default) == IF k \in DOMAIN o.f THEN o.f[k] ELSE default

\* json.loads(x)
json_loads(x) ==
  CASE x.j = "text" -> IF x.valid THEN Ret(x.val) ELSE Raise("JSONDecodeError")
    [] OTHER -> Raise("TypeError")

\* the keywords that occur as substrings of a node-type string
KeywordsIn(s) ==
  CASE s \in {"Seq Scan", "Index Scan", "Index Only Scan", "Bitmap Heap Scan",
              "Bitmap Index Scan", "Tid Scan", "Tid Range Scan", "CTE Scan"}
         -> {"Scan"}
    [] s \in {"Hash Join", "HashJoin"} -> {"Hash", "Join"}
    [] s \in {"Merge Join", "MergeJoin"} -> {"Merge", "Join"}
    [] s \in {"Nested Loop", "NestedLoop"} -> {"Nested"}
    [] s \in {"Semi Join", "SemiJoin"} -> {"Join"}
    [] s = "Hash" -> {"Hash"}
    [] OTHER -> {}

\* sub in s, for the keywords the compilers test
Contains(sub, s) == sub \in KeywordsIn(s)

\* s.replace(" ", "")
NoSpace(s) ==
  CASE s = "Hash Join" -> "HashJoin"
    [] s = "Merge Join" -> "MergeJoin"
    [] s = "Nested Loop" -> "NestedLoop"
    [] s = "Semi Join" -> "SemiJoin"
    [] s = "Seq Scan" -> "SeqScan"
    [] s = "Index Scan" -> "IndexScan"
    [] OTHER -> s

\* sep.join(xs)
RECURSIVE StrJoin(_, _)
StrJoin(xs, sep) ==
  IF xs = <<>> THEN ""
  ELSE IF Len(xs) = 1 THEN xs[1]
  ELSE xs[1] \o sep \o StrJoin(Tail(xs), sep)

\* str(v) inside an f-string
Fmt(v) ==
  CASE v.j = "str" -> v.s
    [] v.j = "num" -> ToString(v.v)
    [] v.j = "null" -> "None"
    [] OTHER -> "?"

(***************************************************************************)
(* batch_executor.py: the batch worker's plan compiler.                    *)
(***************************************************************************)
\* a string-valued outcome
RetS(s) == [raised |-> FALSE, exc |-> "", val |-> s]
RaiseS(e) == [raised |-> TRUE, exc |-> e, val |-> ""]

\* joins[:6]
JoinCap == 6

safe_relation_name(node) ==
  PyOr(PyOr(Get(node, "Relation Name", None), Get(node, "Relation", None)),
       Get(node, "Alias", None))

RECURSIVE find_rel(_), find_rel_children(_, _)
find_rel(n) ==
  IF n.j # "obj" THEN Ret(None)
  ELSE LET rn == safe_relation_name(n) IN
       IF Truthy(rn) THEN Ret(rn)
       ELSE LET ps == Get(n, "Plans", List(<<>>)) IN
            CASE ps.j = "list" -> find_rel_children(ps.items, 1)
              [] ps.j \in {"null", "num", "nan"} -> Raise("TypeError")
              [] OTHER -> Ret(None)
find_rel_children(items, i) ==
  IF i > Len(items) THEN Ret(None)
  ELSE LET r == find_rel(items[i]) IN
       IF r.raised \/ Truthy(r.val) THEN r
       ELSE find_rel_children(items, i + 1)

\* the closure state of extract_tables_and_joins: scans (a set) and joins (a list)
NoExtract == [raised |-> FALSE, exc |-> "", scans |-> {}, joins |-> <<>>]
ExtractRaise(acc, e) == [acc EXCEPT !.raised = TRUE, !.exc = e]

\* the "Join" branch of gather: lines 51-67
gather_join(node, nt, acc) ==
  LET plans == Get(node, "Plans", None)
      two == IF ~Truthy(plans) THEN Ret(FALSE)
             ELSE IF plans.j = "list" THEN Ret(Len(plans.items) >= 2)
             ELSE Raise("TypeError")
  IN IF two.raised THEN ExtractRaise(acc, two.exc)
     ELSE LET left == IF two.val THEN find_rel(plans.items[1]) ELSE Ret(None)
              right == IF two.val /\ ~left.raised THEN find_rel(plans.items[2])
                       ELSE Ret(None)
          IN IF left.raised THEN ExtractRaise(acc, left.exc)
             ELSE IF right.raised THEN ExtractRaise(acc, right.exc)
             ELSE [acc EXCEPT !.joins = Append(@,
                     <<NoSpace(nt.s), Fmt(PyOr(left.val, Str("?"))),
                       Fmt(PyOr(right.val, Str("?")))>>)]

RECURSIVE gather(_, _), gather_children(_, _, _)
gather(node, acc) ==
  IF acc.raised \/ node.j # "obj" THEN acc
  ELSE LET nt == Get(node, "Node Type", Str("")) IN
       IF nt.j \in {"null", "num", "nan"} THEN ExtractRaise(acc, "TypeError")
       ELSE
         LET isStr == nt.j = "str"
             rn == safe_relation_name(node)
             a1 == IF isStr /\ Contains("Scan", nt.s) /\ Truthy(rn)
                   THEN IF rn.j \in {"list", "obj"}
                        THEN ExtractRaise(acc, "TypeError")
                        ELSE [acc EXCEPT !.scans = @ \cup {Fmt(rn)}]
                   ELSE acc
             a2 == IF ~a1.raised /\ isStr /\ Contains("Join", nt.s)
                   THEN gather_join(node, nt, a1)
                   ELSE a1
             ps == PyOr(Get(node, "Plans", List(<<>>)), List(<<>>))
         IN IF a2.raised THEN a2
            ELSE CASE ps.j = "list" -> gather_children(ps.items, 1, a2)
                   [] ps.j \in {"num", "nan"} -> ExtractRaise(a2, "TypeError")
                   [] OTHER -> a2
gather_children(items, i, acc) ==
  IF i > Len(items) \/ acc.raised THEN acc
  ELSE gather_children(items, i + 1, gather(items[i], acc))

RECURSIVE extract_entries(_, _, _)
extract_entries(items, i, acc) ==
  IF i > Len(items) \/ acc.raised THEN acc
  ELSE LET e == items[i] IN
       extract_entries(items, i + 1,
         IF e.j = "obj" /\ "Plan" \in DOMAIN e.f THEN gather(e.f["Plan"], acc)
         ELSE acc)

extract_tables_and_joins(plan) ==
  CASE plan.j = "list" -> extract_entries(plan.items, 1, NoExtract)
    [] plan.j = "obj" ->
         IF "Plan" \in DOMAIN plan.f THEN gather(plan.f["Plan"], NoExtract)
         ELSE gather(plan, NoExtract)
    [] OTHER -> NoExtract

\* the table names of the plans considered
TableNames == {"a", "b", "c"}

\* a set's iteration order: str hashes are salted per interpreter, so the
\* order is one of the permutations, fixed by the process's hash seed
RECURSIVE Perms(_)
Perms(S) ==
  IF S = {} THEN {<<>>}
  ELSE UNION {{<<x>> \o p : p \in Perms(S \ {x})} : x \in S}
HashSeeds == Perms(TableNames)
IterationOrder(S, seed) == SelectSeq(seed, LAMBDA x : x \in S)

\* lines 95-104
JoinToken(jn) ==
  LET name == IF Contains("Hash", jn[1]) THEN "HashJoin"
              ELSE IF Contains("Merge", jn[1]) THEN "MergeJoin"
              ELSE IF Contains("Nested", jn[1]) THEN "NestLoop"
              ELSE jn[1]
  IN name \o "(" \o jn[2] \o " " \o jn[3] \o ")"

\* lines 93-104: the tokens of the scans and of the first joins
hint_tokens(scans, joins, seed) ==
  [i \in 1..Len(IterationOrder(scans, seed)) |->
     "SeqScan(" \o IterationOrder(scans, seed)[i] \o ")"]
  \o [i \in 1..(IF Len(joins) < JoinCap THEN Len(joins) ELSE JoinCap) |->
        JoinToken(joins[i])]

\* line 106
render_tokens(tokens) ==
  IF tokens # <<>> THEN "/*+ " \o StrJoin(tokens, " ") \o " */" ELSE ""

\* lines 92-106, given what extract_tables_and_joins gave
hint_of_extract(e, seed) ==
  IF e.raised THEN RaiseS(e.exc)
  ELSE RetS(render_tokens(hint_tokens(e.scans, e.joins, seed)))

\* lines 87-106, given what json.loads gave
hint_of_parsed(parsed, seed) ==
  IF parsed.raised THEN RetS("")
  ELSE hint_of_extract(extract_tables_and_joins(parsed.val), seed)

plan_json_to_pg_hint(plan_json_str, seed) ==
  hint_of_parsed(json_loads(plan_json_str), seed)

(***************************************************************************)
(* plan_to_hints.py: PlanToHintConverter.                                  *)
(***************************************************************************)
SCAN_HINTS(t) ==
  CASE t = "Seq Scan" -> "SeqScan"
    [] t = "Index Scan" -> "IndexScan"
    [] t = "Index Only Scan" -> "IndexOnlyScan"
    [] t = "Bitmap Heap Scan" -> "BitmapScan"
    [] t = "Bitmap Index Scan" -> "BitmapScan"
    [] t = "Tid Scan" -> "TidScan"
    [] t = "Tid Range Scan" -> "TidRangeScan"
    [] OTHER -> ""

JOIN_HINTS(t) ==
  CASE t = "Nested Loop" -> "NestLoop"
    [] t = "Hash Join" -> "HashJoin"
    [] t = "Merge Join" -> "MergeJoin"
    [] OTHER -> ""

\* the converter's fields after __init__ / reset (tables and join_order are
\* never written by parse_plan and stay empty)
reset == [scan_hints |-> <<>>, join_hints |-> <<>>, index_hints |-> <<>>]

get_table_alias_relation_first(node) ==
  PyOr(Get(node, "Relation Name", None), Get(node, "Alias", None))
get_table_alias(node) == PyOr(Get(node, "Alias", None), Get(node, "Relation Name", None))

\* the outcome of a traversal: the tables of the subtree and the converter after it
TravRet(tables, conv) == [raised |-> FALSE, exc |-> "", tables |-> tables, conv |-> conv]
TravRaise(e, conv) == [raised |-> TRUE, exc |-> e, tables |-> <<>>, conv |-> conv]

\* line 135, for a node that is neither a scan nor a join: the tables of its
\* children are returned
other_kind_no_tables(tables) == <<>>
other_kind_tables(tables) == tables

\* lines 107-133, after the children were traversed (unguarded: without the
\* test of line 110)
traverse_node_unguarded(node, node_type, child_tables_list, tables, conv) ==
  IF node_type.j \in {"list", "obj"} THEN TravRaise("TypeError", conv)
  ELSE IF node_type.j = "str" /\ SCAN_HINTS(node_type.s) # "" THEN
    LET table_alias == get_table_alias(node) IN
    IF TRUE
    THEN TravRet(Append(tables, Fmt(table_alias)),
           [conv EXCEPT
              !.scan_hints = Append(@, SCAN_HINTS(node_type.s) \o "("
                                        \o Fmt(table_alias) \o ")"),
              !.index_hints = IF "Index Name" \in DOMAIN node.f
                              THEN Append(@, <<Fmt(table_alias),
                                               Fmt(node.f["Index Name"])>>)
                              ELSE @])
    ELSE TravRet(tables, conv)
  ELSE IF node_type.j = "str" /\ JOIN_HINTS(node_type.s) # "" THEN
    IF Len(child_tables_list) >= 2 /\ Len(tables) >= 2
    THEN TravRet(tables,
           [conv EXCEPT !.join_hints = Append(@, JOIN_HINTS(node_type.s) \o "("
                                               \o StrJoin(tables, " ") \o ")")])
    ELSE TravRet(tables, conv)
  ELSE TravRet(other_kind_tables(tables), conv)

\* (any_tables: without the test of line 130)
traverse_node_any_tables(node, node_type, child_tables_list, tables, conv) ==
  IF node_type.j \in {"list", "obj"} THEN TravRaise("TypeError", conv)
  ELSE IF node_type.j = "str" /\ SCAN_HINTS(node_type.s) # "" THEN
    LET table_alias == get_table_alias(node) IN
    IF Truthy(table_alias)
    THEN TravRet(Append(tables, Fmt(table_alias)),
           [conv EXCEPT
              !.scan_hints = Append(@, SCAN_HINTS(node_type.s) \o "("
                                        \o Fmt(table_alias) \o ")"),
              !.index_hints = IF "Index Name" \in DOMAIN node.f
                              THEN Append(@, <<Fmt(table_alias),
                                               Fmt(node.f["Index Name"])>>)
                              ELSE @])
    ELSE TravRet(tables, conv)
  ELSE IF node_type.j = "str" /\ JOIN_HINTS(node_type.s) # "" THEN
    IF Len(child_tables_list) >= 2
    THEN TravRet(tables,
           [conv EXCEPT !.join_hints = Append(@, JOIN_HINTS(node_type.s) \o "("
                                               \o StrJoin(tables, " ") \o ")")])
    ELSE TravRet(tables, conv)
  ELSE TravRet(other_kind_tables(tables), conv)

\* lines 107-133, after the children were traversed
traverse_node(node, node_type, child_tables_list, tables, conv) ==
  IF node_type.j \in {"list", "obj"} THEN TravRaise("TypeError", conv)
  ELSE IF node_type.j = "str" /\ SCAN_HINTS(node_type.s) # "" THEN
    LET table_alias == get_table_alias(node) IN
    IF Truthy(table_alias)
    THEN TravRet(Append(tables, Fmt(table_alias)),
           [conv EXCEPT
              !.scan_hints = Append(@, SCAN_HINTS(node_type.s) \o "("
                                        \o Fmt(table_alias) \o ")"),
              !.index_hints = IF "Index Name" \in DOMAIN node.f
                              THEN Append(@, <<Fmt(table_alias),
                                               Fmt(node.f["Index Name"])>>)
                              ELSE @])
    ELSE TravRet(tables, conv)
  ELSE IF node_type.j = "str" /\ JOIN_HINTS(node_type.s) # "" THEN
    IF Len(child_tables_list) >= 2 /\ Len(tables) >= 2
    THEN TravRet(tables,
           [conv EXCEPT !.join_hints = Append(@, JOIN_HINTS(node_type.s) \o "("
                                               \o StrJoin(tables, " ") \o ")")])
    ELSE TravRet(tables, conv)
  ELSE TravRet(other_kind_tables(tables), conv)

RECURSIVE traverse_plan(_, _), traverse_children(_, _, _, _, _)
traverse_plan(node, conv) ==
  IF ~Truthy(node) THEN TravRet(<<>>, conv)
  ELSE IF node.j # "obj" THEN TravRaise("AttributeError", conv)
  ELSE LET node_type == Get(node, "Node Type", Str(""))
           kids == IF "Plans" \in DOMAIN node.f
                   THEN IF node.f["Plans"].j = "list"
                        THEN traverse_children(node.f["Plans"].items, 1, <<>>, <<>>, conv)
                        ELSE TravRaise("TypeError", conv)
                   ELSE [raised |-> FALSE, exc |-> "", tables |-> <<>>, conv |-> conv,
                         lists |-> <<>>]
       IN IF kids.raised THEN TravRaise(kids.exc, kids.conv)
          ELSE traverse_node(node, node_type, kids.lists, kids.tables, kids.conv)
\* the loop of lines 102-105: child_tables_list and tables_in_subtree
traverse_children(items, i, lists, tables, conv) ==
  IF i > Len(items)
  THEN [raised |-> FALSE, exc |-> "", tables |-> tables, conv |-> conv, lists |-> lists]
  ELSE LET r == traverse_plan(items[i], conv) IN
       IF r.raised THEN r
       ELSE traverse_children(items, i + 1, Append(lists, r.tables),
                              tables \o r.tables, r.conv)

RECURSIVE Dedup_keep_last(_, _)
Dedup_keep_last(xs, seen) ==
  IF xs = <<>> THEN <<>>
  ELSE IF \E i \in 2..Len(xs) : xs[i] = xs[1] THEN Dedup_keep_last(Tail(xs), seen)
  ELSE <<xs[1]>> \o Dedup_keep_last(Tail(xs), seen)

\* the join hints without repetitions, first occurrences kept
RECURSIVE Dedup(_, _)
Dedup(xs, seen) ==
  IF xs = <<>> THEN <<>>
  ELSE IF xs[1] \in seen THEN Dedup(Tail(xs), seen)
  ELSE <<xs[1]>> \o Dedup(Tail(xs), seen \cup {xs[1]})

build_hint_string_joins_first(conv) ==
  LET hints == Dedup(conv.join_hints, {}) \o conv.scan_hints
               \o [i \in 1..Len(conv.index_hints) |->
                     "IndexScan(" \o conv.index_hints[i][1] \o " "
                     \o conv.index_hints[i][2] \o ")"]
  IN IF hints = <<>> THEN "" ELSE "/*+ " \o StrJoin(hints, " ") \o " */"
build_hint_string(conv) ==
  LET hints == conv.scan_hints \o Dedup(conv.join_hints, {})
               \o [i \in 1..Len(conv.index_hints) |->
                     "IndexScan(" \o conv.index_hints[i][1] \o " "
                     \o conv.index_hints[i][2] \o ")"]
  IN IF hints = <<>> THEN "" ELSE "/*+ " \o StrJoin(hints, " ") \o " */"

\* parse_plan: the outcome and the converter's fields after the call
ParseRet(s, conv) == [raised |-> FALSE, exc |-> "", val |-> s, conv |-> conv]
ParseRaise(e, conv) == [raised |-> TRUE, exc |-> e, val |-> "", conv |-> conv]

\* lines 41-47: reset() empties the converter's fields
reset_keeps(conv) == conv
reset_fields(conv) == reset

\* lines 63-64: a str payload is parsed
loaded_of(plan_json) ==
  IF plan_json.j = "text" THEN json_loads(plan_json) ELSE Ret(plan_json)

\* lines 67-68: a list payload gives its first element
first_of_keep_list(loaded) == loaded
first_of(loaded) ==
  IF loaded.val.j = "list"
  THEN IF loaded.val.items = <<>> THEN Raise("IndexError") ELSE Ret(loaded.val.items[1])
  ELSE loaded

\* lines 71-74: the Plan field, or the object itself
plan_node_of(v) == IF v.j = "obj" /\ "Plan" \in DOMAIN v.f THEN v.f["Plan"] ELSE v

\* lines 77-80, given what _traverse_plan gave
parse_traversed(t) ==
  IF t.raised THEN ParseRaise(t.exc, t.conv)
  ELSE ParseRet(build_hint_string(t.conv), t.conv)

\* lines 67-80, given plan_json[0] (or the exception it raised); c0 is the
\* converter after reset()
parse_first(c0, first) ==
  IF first.raised THEN ParseRaise(first.exc, c0)
  ELSE IF first.val.j \in {"null", "num", "nan"} THEN ParseRaise("TypeError", c0)
  ELSE parse_traversed(traverse_plan(plan_node_of(first.val), c0))

\* lines 63-80, given what json.loads gave
parse_loaded(c0, loaded) ==
  IF loaded.raised THEN ParseRaise(loaded.exc, c0)
  ELSE parse_first(c0, first_of(loaded))

\* parse_plan called on a converter whose fields are conv
parse_plan_on(conv, plan_json) ==
  parse_loaded(reset_fields(conv), loaded_of(plan_json))

\* parse_plan called on a converter just constructed
parse_plan(plan_json) == parse_plan_on(reset, plan_json)

\* what a call of parse_plan gives its caller: the hint string, or the exception
parse_outcome(r) == IF r.raised THEN RaiseS(r.exc) ELSE RetS(r.val)

\* plan_to_hints: a fresh converter per call
plan_to_hints(plan_json) == parse_outcome(parse_plan(plan_json))

(***************************************************************************)
(* The plan payloads considered.                                           *)
(***************************************************************************)
\* a dict from the keys whose value is present
Field(k, present, v) == IF present THEN k :> v ELSE <<>>
ScanNode(type, rel, alias, index) ==
  Obj(("Node Type" :> Str(type))
      @@ Field("Relation Name", rel # "", Str(rel))
      @@ Field("Alias", alias # "", Str(alias))
      @@ Field("Index Name", index # "", Str(index)))
InnerNode(type, kids) == Obj(("Node Type" :> Str(type)) @@ ("Plans" :> List(kids)))

ScanNodes ==
  {ScanNode("Seq Scan", t, "", "") : t \in {"a", "b"}}
  \cup {ScanNode("Seq Scan", "a", "c", ""),
        ScanNode("Index Scan", "b", "", "b_idx"),
        ScanNode("Seq Scan", "", "", ""),
        ScanNode("Index Scan", "", "", "b_idx"),
        ScanNode("CTE Scan", "", "c", "")}
JoinTypes == {"Hash Join", "Nested Loop", "Merge Join"}
JoinNodes == {InnerNode(t, <<l, r>>) : t \in JoinTypes, l \in ScanNodes, r \in ScanNodes}
DeepNodes ==
  {InnerNode("Hash Join", <<InnerNode(t, <<ScanNode("Seq Scan", "a", "", ""),
                                           ScanNode("Seq Scan", "b", "", "")>>),
                            InnerNode("Sort", <<n>>)>>) :
     t \in JoinTypes, n \in ScanNodes}
  \cup {InnerNode("Sort", <<n>>) : n \in ScanNodes}
  \cup {InnerNode(t, <<n>>) : t \in JoinTypes, n \in ScanNodes}
\* two joins below a node of another kind: the same join twice, the operands
\* swapped, and another join between the two occurrences
JoinOf(t, l, r) == InnerNode(t, <<ScanNode("Seq Scan", l, "", ""), ScanNode("Seq Scan", r, "", "")>>)
DupNodes ==
  {InnerNode("Sort", <<JoinOf("Hash Join", "a", "b"), JoinOf("Hash Join", "a", "b")>>),
   InnerNode("Sort", <<JoinOf("Hash Join", "a", "b"), JoinOf("Hash Join", "b", "a")>>),
   InnerNode("Sort", <<JoinOf("Hash Join", "a", "b"), JoinOf("Merge Join", "a", "b"),
                       JoinOf("Hash Join", "a", "b")>>)}
\* a join over a join and a scan, and a node of another kind over a join
FlatNodes ==
  {InnerNode("Hash Join", <<JoinOf(t, "a", "b"), n>>) : t \in JoinTypes, n \in ScanNodes}
WrappedNodes ==
  {InnerNode("Sort", <<InnerNode("Hash Join", <<l, r>>)>>) : l \in ScanNodes, r \in ScanNodes}
PlanNodes == ScanNodes \cup JoinNodes \cup DeepNodes \cup DupNodes \cup FlatNodes \cup WrappedNodes

\* plan-shaped JSON whose fields have the wrong type
BadNodes ==
  {Obj("Node Type" :> None),
   Obj("Node Type" :> Num(5)),
   Obj(("Node Type" :> Str("Hash Join")) @@ ("Plans" :> Num(5))),
   Obj(("Node Type" :> Str("Sort")) @@ ("Plans" :> None))}

\* the three accepted shapes of a plan P and their serialized text
Shapes(P) ==
  {P, Obj("Plan" :> P), List(<<Obj("Plan" :> P)>>),
   Text(TRUE, P), Text(TRUE, Obj("Plan" :> P)), Text(TRUE, List(<<Obj("Plan" :> P)>>))}

\* payloads that are not valid structured data
InvalidPayloads ==
  {Text(FALSE, None), List(<<>>), Text(TRUE, List(<<>>)), None, Num(5),
   Text(TRUE, None), Text(TRUE, Num(5))}

Payloads ==
  UNION {Shapes(P) : P \in PlanNodes \cup BadNodes} \cup InvalidPayloads

\* the cells pandas reads from a plan_json column: text, or NaN for an empty cell
PlanCells ==
  <<Text(TRUE, Obj("Plan" :> InnerNode("Hash Join",
                     <<ScanNode("Seq Scan", "a", "", ""),
                       ScanNode("Seq Scan", "b", "", "")>>))),
    Text(TRUE, Obj("Plan" :> Obj("Node Type" :> None))),
    NaN,
    Text(FALSE, None),
    Text(TRUE, Num(5))>>
\* row i of a table holds PlanCells[i + shift], cyclically
PlanShifts == {0, 2, 4}

(***************************************************************************)
(* query_executor.py: what a call of the execution adapter can give back.  *)
(* The database is the environment: a call returns a result dict or raises *)
(* (get_connection is called outside the try of every operation).          *)
(***************************************************************************)
\* elapsed times in ms the database can take
TimeVals == {0, 6}

\* execute_query: lines 102-127
execute_query_outcomes ==
  {Ret(Obj(("execution_time_ms" :> Num(t)) @@ ("success" :> Num(1)))) : t \in TimeVals}
  \cup {Ret(Obj(("error" :> Str("syntax error")) @@ ("success" :> Num(0)))),
        Raise("OperationalError")}

\* execute_with_hints: lines 129-158, returning get_execution_plan(analyze=True)
execute_with_hints_outcomes ==
  {Ret(Obj(("actual_total_time" :> Num(a)) @@ ("execution_time" :> Num(e)))) :
     a \in TimeVals, e \in TimeVals}
  \cup {Ret(Obj(("error" :> Str("syntax error")) @@ ("execution_plan" :> None))),
        Raise("OperationalError")}

(***************************************************************************)
(* query_executor.py: the adapter operations with their connection.  The   *)
(* environment of one call is a session s: whether psycopg2.connect,       *)
(* conn.cursor() and cursor.close() succeed and whether the statements run *)
(* ("ok") or the database rejects them ("error").                          *)
(***************************************************************************)
Sessions == [connect : BOOLEAN, cursor : BOOLEAN, run : {"ok", "error"}, close : BOOLEAN]

\* what an operation gives and the connections it opened and did not close
AdapterGave(out, leaked) == [out |-> out, leaked |-> leaked]

\* the frame of every operation: conn = self.get_connection() and
\* cursor = conn.cursor() before the try (lines 41-42, 106-107, 137-138), and
\* finally: cursor.close(); conn.close() (lines 98-100, 125-127, 156-158).
\* body is what the try/except gives.
in_session(s, body) ==
  IF ~s.connect THEN AdapterGave(Raise("OperationalError"), 0)
  ELSE IF ~s.cursor THEN AdapterGave(Raise("OperationalError"), 1)
  ELSE IF ~s.close THEN AdapterGave(Raise("OperationalError"), body.leaked + 1)
  ELSE body

\* get_execution_plan: lines 28-100; a and e are the times the plan reports
get_execution_plan(query, analyze, s, a, e) ==
  in_session(s,
    AdapterGave(IF s.run = "error"
                THEN Ret(Obj(("error" :> Str("syntax error")) @@ ("execution_plan" :> None)))
                ELSE IF analyze
                THEN Ret(Obj(("actual_total_time" :> Num(a)) @@ ("execution_time" :> Num(e))))
                ELSE Ret(Obj("estimated_cost" :> Num(a))),
                0))

\* execute_query: lines 102-127; t is the elapsed time
execute_query(query, s, t) ==
  in_session(s,
    AdapterGave(IF s.run = "error"
                THEN Ret(Obj(("error" :> Str("syntax error")) @@ ("success" :> Num(0))))
                ELSE Ret(Obj(("execution_time_ms" :> Num(t)) @@ ("success" :> Num(1)))),
                0))

\* lines 140-155: the try of execute_with_hints, inner being what the call of
\* get_execution_plan at line 148 gives when it is reached
hinted_body(s, inner) ==
  IF s.run = "error"
  THEN AdapterGave(Ret(Obj("error" :> Str("Failed to execute with hints: syntax error"))), 0)
  ELSE IF inner.out.raised
  THEN AdapterGave(Ret(Obj("error" :> Str("Failed to execute with hints: " \o inner.out.exc))),
                   inner.leaked)
  ELSE inner

\* execute_with_hints: lines 129-158; s2 is the session of get_execution_plan
execute_with_hints(query, hints, s, s2, a, e) ==
  in_session(s, hinted_body(s, get_execution_plan(hints \o "\n" \o query, TRUE, s2, a, e)))

Sum(xs) == LET RECURSIVE S(_)
               S(i) == IF i = 0 THEN 0 ELSE xs[i] + S(i - 1)
           IN S(Len(xs))

\* benchmark_query: lines 212-243; rs are the outcomes of its execute_query calls
RECURSIVE benchmark_loop(_, _, _, _)
benchmark_loop(rs, iterations, i, results) ==
  IF i > iterations
  THEN [out |-> IF results # <<>>
                THEN Ret(Obj(("avg_time_ms" :> Num(Sum(results) \div Len(results)))
                             @@ ("iterations" :> Num(iterations))))
                ELSE Ret(Obj("error" :> Str("No successful executions"))),
        calls |-> iterations]
  ELSE IF rs[i].raised THEN [out |-> rs[i], calls |-> i]
  ELSE IF Truthy(rs[i].val.f["success"])
       THEN benchmark_loop(rs, iterations, i + 1,
                           Append(results, rs[i].val.f["execution_time_ms"].v))
       ELSE [out |-> Ret(Obj("error" :> Str("Query failed on iteration "
                           \o ToString(i) \o ": " \o rs[i].val.f["error"].s))),
             calls |-> i]
benchmark_query_once(rs, iterations) == benchmark_loop(rs, 1, 1, <<>>)
benchmark_query(rs, iterations) == benchmark_loop(rs, iterations, 1, <<>>)

(***************************************************************************)
(* batch_executor.py: worker_execute.                                      *)
(***************************************************************************)
\* what a call of worker_execute gives: a returned dict or a raised exception,
\* the adapter operation it used and the number of adapter calls it made
WorkerRet(res, op, n) == [raised |-> FALSE, exc |-> "", res |-> res, op |-> op, calls |-> n]
WorkerRaise(e, op, n) == [raised |-> TRUE, exc |-> e, res |-> Obj(<<>>), op |-> op, calls |-> n]
ErrorResult(e) == Obj("error" :> Str(e))
TimeResult(t) == Obj("execution_time_ms" :> Num(t))

\* lines 164-165: except Exception as e
except_missing(e, op, n) == WorkerRaise(e, op, n)
except_handler(e, op, n) == WorkerRet(ErrorResult(e), op, n)

\* lines 125-129 and 153-157
timing_of(res) ==
  PyOr(PyOr(Get(res, "actual_total_time", None), Get(res, "execution_time", None)),
       Get(res, "execution_time_ms", None))

RECURSIVE hinted_loop_partial(_, _, _, _)
hinted_loop_partial(rs, iterations, i, times) ==
  IF i > iterations
  THEN IF times = <<>>
       THEN WorkerRet(ErrorResult("No timing value found"), "execute_with_hints", iterations)
       ELSE WorkerRet(TimeResult(Sum(times) \div Len(times)), "execute_with_hints", iterations)
  ELSE IF rs[i].raised \/ Truthy(Get(rs[i].val, "error", None)) \/ timing_of(rs[i].val) = None
       THEN hinted_loop_partial(rs, iterations, i + 1, times)
  ELSE hinted_loop_partial(rs, iterations, i + 1, Append(times, timing_of(rs[i].val).v))

\* lines 120-134: the hinted loop; rs are the outcomes of the adapter calls
RECURSIVE hinted_loop(_, _, _, _)
hinted_loop(rs, iterations, i, times) ==
  IF i > iterations
  THEN WorkerRet(TimeResult(Sum(times) \div Len(times)), "execute_with_hints", iterations)
  ELSE IF rs[i].raised THEN except_handler(rs[i].exc, "execute_with_hints", i)
  ELSE IF Truthy(Get(rs[i].val, "error", None))
       THEN WorkerRet(Obj("error" :> rs[i].val.f["error"]), "execute_with_hints", i)
  ELSE LET t == timing_of(rs[i].val) IN
       IF t = None
       THEN WorkerRet(ErrorResult("No timing value found"), "execute_with_hints", i)
       ELSE hinted_loop(rs, iterations, i + 1, Append(times, t.v))

\* line 115
worker_hints(plan_json, use_hints, seed) ==
  IF use_hints /\ Truthy(plan_json) THEN plan_json_to_pg_hint(plan_json, seed)
  ELSE RetS("")

\* lines 136-141, given what benchmark_query gave
after_benchmark(b) ==
  IF b.out.raised THEN except_handler(b.out.exc, "benchmark_query", b.calls)
  ELSE IF Truthy(Get(b.out.val, "error", None))
       THEN WorkerRet(Obj("error" :> b.out.val.f["error"]), "benchmark_query", b.calls)
  ELSE IF Get(b.out.val, "avg_time_ms", None) = None
       THEN WorkerRet(ErrorResult("No timing value found"), "benchmark_query", b.calls)
  ELSE WorkerRet(TimeResult(b.out.val.f["avg_time_ms"].v), "benchmark_query", b.calls)

\* lines 145-162: the single run, r being what the adapter call gave
single_run(r, op) ==
  IF r.raised THEN except_handler(r.exc, op, 1)
  ELSE IF Truthy(Get(r.val, "error", None))
       THEN WorkerRet(Obj("error" :> r.val.f["error"]), op, 1)
  ELSE IF timing_of(r.val) = None
       THEN WorkerRet(ErrorResult("No timing value found"), op, 1)
  ELSE WorkerRet(TimeResult(timing_of(r.val).v), op, 1)

\* lines 117-165, h being the hints of line 115 (or the exception raised there)
worker_run(h, iterations, rs) ==
  IF h.raised THEN except_handler(h.exc, "none", 0)
  ELSE IF iterations > 1 THEN
    IF h.val # "" THEN hinted_loop(rs, iterations, 1, <<>>)
    ELSE after_benchmark(benchmark_query(rs, iterations))
  ELSE single_run(rs[1], IF h.val # "" THEN "execute_with_hints" ELSE "execute_query")

\* lines 109-165.  seed is the worker process's hash seed and rs the outcomes
\* the adapter gives to the calls worker_execute makes, in order
worker_execute(query, plan_json, use_hints, iterations, seed, rs) ==
  worker_run(worker_hints(plan_json, use_hints, seed), iterations, rs)

(***************************************************************************)
(* query_executor.py: execute_with_extracted_hints.                        *)
(***************************************************************************)
\* lines 316-327, hints being what plan_to_hints gave at line 314 and r what
\* the call of execute_with_hints gives; nothing here catches an exception
extracted_run(hints, query, plan_json, r) ==
  IF hints.raised THEN WorkerRaise(hints.exc, "none", 0)
  ELSE IF hints.val = ""
       THEN WorkerRet(Obj(("query" :> Str(query))
                          @@ ("error" :> Str("Could not extract any hints from the provided plan"))
                          @@ ("plan_provided" :> plan_json)),
                      "none", 0)
  ELSE IF r.raised THEN WorkerRaise(r.exc, "execute_with_hints", 1)
  ELSE WorkerRet(Obj(("extracted_hints" :> Str(hints.val)) @@ r.val.f),
                 "execute_with_hints", 1)

\* lines 296-327
execute_with_extracted_hints(query, plan_json, r) ==
  extracted_run(plan_to_hints(plan_json), query, plan_json, r)

(***************************************************************************)
(* State.                                                                  *)
(***************************************************************************)
VARIABLES
  csv,        \* the input table: [cols, rows], rows indexed 0..n-1
  args,       \* process_csv's arguments: [use_hints, iterations, workers]
  pc,         \* where process_csv is
  error,      \* the exception raised out of process_csv, "" when none
  df,         \* the DataFrame
  futures,    \* the dict of line 181: future number -> idx
  work,       \* the pool's work items, by future number
  procs,      \* the pool's worker processes: the future each one runs, 0 when idle
  broken,     \* the pool is broken (BrokenProcessPool)
  yielded,    \* the futures as_completed has yielded, in order
  writes,     \* idx -> how many times df.at[idx, out_col] was assigned
  out,        \* the output file: [written, table]
  converter,  \* a PlanToHintConverter instance: its fields
  call,       \* the compiler call: [fn, arg, seed], fn "none" before any call
  result,     \* what the last call gave
  parsed,     \* the payloads given so far to a converter that is reused
  connections \* the number of database connections that are open

orchVars == <<csv, args, pc, error, df, futures, work, procs, broken, yielded, writes, out>>
parseVars == <<converter, call, result, parsed, connections>>
vars == <<csv, args, pc, error, df, futures, work, procs, broken, yielded, writes, out,
          converter, call, result, parsed, connections>>

\* bounds of the inputs
MaxRows == 2
MaxWorkers == 2
MaxIterations == 2

out_col == "execution_time"
NA == [j |-> "NA"]
NoFrame == [cols |-> {}, rows |-> <<>>]
NumRows(t) == Cardinality(DOMAIN t.rows)

\* the cell of column c in row i of an input table
Cell(c, i, shift) ==
  IF c = "plan_json" THEN PlanCells[((i + shift) % Len(PlanCells)) + 1]
  ELSE Str(c \o ToString(i))
InputTable(cols, n, shift) ==
  [cols |-> cols, rows |-> [i \in 0..(n - 1) |-> [c \in cols |-> Cell(c, i, shift)]]]
InputTables ==
  {InputTable(cols, n, shift) :
     cols \in SUBSET {"query", "sql_text", "plan_json"}, n \in 0..MaxRows,
     shift \in PlanShifts}

NoCall == [fn |-> "none", arg |-> None, seed |-> <<>>]
ParseIdle ==
  converter = reset /\ call = NoCall /\ result = RetS("") /\ parsed = <<>> /\ connections = 0

Init ==
  /\ csv \in InputTables
  /\ args \in [use_hints : BOOLEAN, iterations : 1..MaxIterations, workers : 0..MaxWorkers]
  /\ pc = "start"
  /\ error = ""
  /\ df = NoFrame
  /\ futures = <<>>
  /\ work = <<>>
  /\ procs = <<>>
  /\ broken = FALSE
  /\ yielded = <<>>
  /\ writes = <<>>
  /\ out = [written |-> FALSE, table |-> NoFrame]
  /\ ParseIdle

(***************************************************************************)
(* batch_executor.py: process_csv.                                         *)
(***************************************************************************)
raise(e) == pc' = "raised" /\ error' = e

\* lines 169-178: read the table, check the columns, add the columns
ReadCsv ==
  /\ pc = "start"
  /\ IF "query" \notin csv.cols
     THEN /\ raise("ValueError")
          /\ df' = csv
          /\ UNCHANGED writes
     ELSE /\ pc' = "pool"
          /\ df' = [cols |-> csv.cols \cup {"plan_json", out_col},
                    rows |-> [i \in DOMAIN csv.rows |->
                       [c \in csv.cols \cup {"plan_json", out_col} |->
                          IF c = out_col THEN NA
                          ELSE IF c \in csv.cols THEN csv.rows[i][c]
                          ELSE None]]]
          /\ writes' = [i \in DOMAIN csv.rows |-> 0]
          /\ UNCHANGED error
  /\ UNCHANGED <<csv, args, futures, work, procs, broken, yielded, out, parseVars>>

\* the position after k rows were submitted: the comprehension of lines 181-184
\* ends when every row was submitted
after_submit_first(k) == IF k = NumRows(df) \/ k = 1 THEN "collect" ELSE "submit"
after_submit(k) == IF k = NumRows(df) THEN "collect" ELSE "submit"

\* line 180: ProcessPoolExecutor(max_workers=workers)
OpenPool ==
  /\ pc = "pool"
  /\ IF args.workers <= 0
     THEN raise("ValueError") /\ UNCHANGED procs
     ELSE /\ pc' = after_submit(0)
          /\ procs' = [w \in 1..args.workers |-> 0]
          /\ UNCHANGED error
  /\ UNCHANGED <<csv, args, df, futures, work, broken, yielded, writes, out, parseVars>>

\* the idx the comprehension pairs with the k-th submitted future
submit_first_idx(k) == 0
submit_idx(k) == k

\* lines 181-184: one exe.submit(worker_execute, row["sql_text"], row.get("plan_json"), ...)
\* The work item records the row the task was submitted for (row) and how many
\* times a worker process took it (ran).
Submit ==
  /\ pc = "submit"
  /\ LET k == Len(futures)
         row == df.rows[k]
     IN IF "sql_text" \notin DOMAIN row
        THEN raise("KeyError") /\ UNCHANGED <<futures, work>>
        ELSE IF broken
        THEN raise("BrokenProcessPool") /\ UNCHANGED <<futures, work>>
        ELSE /\ futures' = Append(futures, submit_idx(k))
             /\ work' = Append(work,
                  [row |-> k,
                   query |-> row["sql_text"],
                   plan_json |-> Get(Obj(row), "plan_json", None),
                   state |-> "pending", kind |-> "none", res |-> Obj(<<>>), exc |-> "",
                   op |-> "none", adapter_error |-> FALSE, faulted |-> FALSE,
                   ran |-> 0])
             /\ pc' = after_submit(k + 1)
             /\ UNCHANGED error
  /\ UNCHANGED <<csv, args, df, procs, broken, yielded, writes, out, parseVars>>

(***************************************************************************)
(* The ProcessPoolExecutor of line 180 and the workers running             *)
(* worker_execute.                                                         *)
(***************************************************************************)
Range(xs) == {xs[i] : i \in DOMAIN xs}
Pending == {f \in DOMAIN work : work[f].state = "pending"}
Min(S) == CHOOSE x \in S : \A y \in S : x <= y

\* an idle worker process takes the oldest pending work item
Dispatch(w) ==
  /\ w \in DOMAIN procs
  /\ procs[w] = 0
  /\ ~broken
  /\ Pending # {}
  /\ LET f == Min(Pending) IN
       /\ procs' = [procs EXCEPT ![w] = f]
       /\ work' = [work EXCEPT ![f].state = "running", ![f].ran = @ + 1]
  /\ UNCHANGED <<csv, args, pc, error, df, futures, broken, yielded, writes, out, parseVars>>

\* the adapter operation worker_execute calls with these hints: lines 119-148
adapter_outcomes(hints) ==
  IF hints # "" THEN execute_with_hints_outcomes ELSE execute_query_outcomes

\* the outcome of the last adapter call worker_execute made
last_outcome(r, rs) == IF r.calls >= 1 THEN rs[r.calls] ELSE Ret(Obj(<<>>))

\* the work item once the call gave r: the future's result or exception is set
finished_item(item, r, last) ==
  [item EXCEPT !.state = "finished",
     !.kind = IF r.raised THEN "exception" ELSE "result",
     !.res = r.res, !.exc = r.exc, !.op = r.op,
     !.adapter_error = last.raised \/ Truthy(Get(last.val, "error", None))]
finish_call(item, r, rs) == finished_item(item, r, last_outcome(r, rs))

\* the hints line 115 can give in a worker process, over the hash seeds
possible_hints(plan_json, use_hints) ==
  {worker_hints(plan_json, use_hints, seed) : seed \in HashSeeds}

\* what the work item can become when its call of worker_execute ends, over the
\* outcomes the adapter can give to the calls made
possible_items(item, h, iterations) ==
  {finish_call(item, worker_run(h, iterations, rs), rs) :
     rs \in [1..iterations -> adapter_outcomes(h.val)]}

\* the call of worker_execute in worker process w returns (or raises) and the
\* pool sets the future's result (or exception)
Complete(w) ==
  /\ w \in DOMAIN procs
  /\ procs[w] # 0
  /\ \E h \in possible_hints(work[procs[w]].plan_json, args.use_hints) :
       \E done \in possible_items(work[procs[w]], h, args.iterations) :
         work' = [work EXCEPT ![procs[w]] = done]
  /\ procs' = [procs EXCEPT ![w] = 0]
  /\ UNCHANGED <<csv, args, pc, error, df, futures, broken, yielded, writes, out, parseVars>>

\* a fault in worker process w outside worker_execute's try (line 111, or
\* sending the result back): the pool sets it as the future's exception
WorkerFault(w) ==
  /\ w \in DOMAIN procs
  /\ procs[w] # 0
  /\ work' = [work EXCEPT ![procs[w]].state = "finished",
                          ![procs[w]].kind = "exception",
                          ![procs[w]].exc = "RuntimeError",
                          ![procs[w]].faulted = TRUE]
  /\ procs' = [procs EXCEPT ![w] = 0]
  /\ UNCHANGED <<csv, args, pc, error, df, futures, broken, yielded, writes, out, parseVars>>

\* worker process w dies abruptly while running a task: the pool is broken,
\* every future that is not finished gets BrokenProcessPool and the other
\* worker processes are terminated
WorkerDeath(w) ==
  /\ w \in DOMAIN procs
  /\ procs[w] # 0
  /\ broken' = TRUE
  /\ work' = [f \in DOMAIN work |->
                IF work[f].state = "finished" THEN work[f]
                ELSE [work[f] EXCEPT !.state = "finished", !.kind = "exception",
                                     !.exc = "BrokenProcessPool",
                                     !.faulted = (f = procs[w])]]
  /\ procs' = [v \in DOMAIN procs |-> 0]
  /\ UNCHANGED <<csv, args, pc, error, df, futures, yielded, writes, out, parseVars>>

\* line 187: idx = futures[fut]; i is the count of line 186
collect_idx_by_order(f, i) == i - 1
collect_idx(f, i) == futures[f]

\* the rows df.at[idx, out_col] = ... assigns: lines 193, 195, 199
cells_written_column(idx) == DOMAIN df.rows
cells_written(idx) == {idx}

\* lines 188-200: the value assigned for a future's outcome
collect_value(item) ==
  IF item.kind = "exception" THEN NA
  ELSE IF Truthy(Get(item.res, "error", None)) THEN NA
  ELSE Get(item.res, "execution_time_ms", None)

\* lines 186-205: one iteration of the loop over as_completed(futures)
Collect ==
  /\ pc = "collect"
  /\ \E f \in DOMAIN work \ Range(yielded) :
       /\ work[f].state = "finished"
       /\ LET idx == collect_idx(f, Len(yielded) + 1)
              cells == cells_written(idx)
          IN /\ df' = [df EXCEPT !.rows = [i \in DOMAIN df.rows |->
                         IF i \in cells
                         THEN [df.rows[i] EXCEPT ![out_col] = collect_value(work[f])]
                         ELSE df.rows[i]]]
             /\ writes' = [i \in DOMAIN writes |->
                             IF i \in cells THEN writes[i] + 1 ELSE writes[i]]
       /\ yielded' = Append(yielded, f)
  /\ UNCHANGED <<csv, args, pc, error, futures, work, procs, broken, out, parseVars>>

\* line 186: as_completed(futures), without timeout, is exhausted when every
\* future was yielded
as_completed_timeout == TRUE
as_completed_exhausted == Range(yielded) = DOMAIN futures

\* the loop ends and the with block of line 180 is left
ClosePool ==
  /\ pc = "collect"
  /\ as_completed_exhausted
  /\ pc' = "save"
  /\ UNCHANGED <<csv, args, error, df, futures, work, procs, broken, yielded, writes, out,
                 parseVars>>

\* lines 207-213: df.to_csv(output_path, index=False)
Save ==
  /\ pc = "save"
  /\ out' = [written |-> TRUE, table |-> df]
  /\ pc' = "done"
  /\ UNCHANGED <<csv, args, error, df, futures, work, procs, broken, yielded, writes,
                 parseVars>>

Next ==
  \/ ReadCsv
  \/ OpenPool
  \/ Submit
  \/ \E w \in 1..MaxWorkers : Dispatch(w)
  \/ \E w \in 1..MaxWorkers : Complete(w)
  \/ \E w \in 1..MaxWorkers : WorkerFault(w)
  \/ \E w \in 1..MaxWorkers : WorkerDeath(w)
  \/ Collect
  \/ ClosePool
  \/ Save

Spec == Init /\ [][Next]_vars

(***************************************************************************)
(* process_csv when every adapter call returns or raises: process_csv      *)
(* keeps running, the pool gives pending tasks to idle worker processes,   *)
(* and every call of worker_execute ends (by Complete, WorkerFault or      *)
(* WorkerDeath, which are enabled exactly while the process is busy and    *)
(* leave it idle: the last conjunct is their weak fairness, on states).    *)
(***************************************************************************)
Busy(w) == w \in DOMAIN procs /\ procs[w] # 0

FairLive ==
  /\ WF_vars(ReadCsv) /\ WF_vars(OpenPool) /\ WF_vars(Submit)
  /\ WF_vars(Collect) /\ WF_vars(ClosePool) /\ WF_vars(Save)
  /\ \A w \in 1..MaxWorkers : WF_vars(Dispatch(w))
  /\ \A w \in 1..MaxWorkers : []<>(~Busy(w))

SpecLive == Init /\ [][Next]_vars /\ FairLive

(***************************************************************************)
(* process_csv on a table whose first query never returns, without worker  *)
(* faults: the adapter call of that task blocks for ever.                  *)
(***************************************************************************)
\* the work item runs the query that never returns
NeverReturns(item) == item.query = Cell("sql_text", 0, 0)

\* the call of worker_execute in worker process w returns, which it does only
\* when its adapter calls return
CompleteReturning(w) ==
  /\ w \in DOMAIN procs
  /\ procs[w] # 0
  /\ ~NeverReturns(work[procs[w]])
  /\ Complete(w)

NextHang ==
  \/ ReadCsv
  \/ OpenPool
  \/ Submit
  \/ \E w \in 1..MaxWorkers : Dispatch(w)
  \/ \E w \in 1..MaxWorkers : CompleteReturning(w)
  \/ Collect
  \/ ClosePool
  \/ Save

\* worker process w is running a call whose queries return: the states in
\* which CompleteReturning(w) is enabled.  Its step leaves the process idle.
BusyReturning(w) ==
  /\ w \in DOMAIN procs
  /\ procs[w] # 0
  /\ ~NeverReturns(work[procs[w]])

\* the pool gives pending tasks to idle worker processes, queries that return
\* do return, and process_csv keeps running.  The last conjunct is
\* WF_vars(CompleteReturning(w)) written on states: the action is enabled
\* exactly in the states of BusyReturning(w) and each of its steps ends them.
FairHang ==
  /\ WF_vars(ReadCsv) /\ WF_vars(OpenPool) /\ WF_vars(Submit)
  /\ WF_vars(Collect) /\ WF_vars(ClosePool) /\ WF_vars(Save)
  /\ \A w \in 1..MaxWorkers : WF_vars(Dispatch(w))
  /\ \A w \in 1..MaxWorkers : []<>(~BusyReturning(w))

SpecHang == Init /\ [][NextHang]_vars /\ FairHang

(***************************************************************************)
(* The plan compilers applied to the payloads.                             *)
(***************************************************************************)
\* the inputs: a payload and the hash seed of the process
InitParse ==
  /\ csv = InputTable({}, 0, 0)
  /\ args = [use_hints |-> FALSE, iterations |-> 1, workers |-> 0]
  /\ pc = "start"
  /\ error = ""
  /\ df = NoFrame
  /\ futures = <<>>
  /\ work = <<>>
  /\ procs = <<>>
  /\ broken = FALSE
  /\ yielded = <<>>
  /\ writes = <<>>
  /\ out = [written |-> FALSE, table |-> NoFrame]
  /\ converter = reset
  /\ connections = 0
  /\ call \in [fn : {"none"}, arg : Payloads, seed : HashSeeds]
  /\ result = RetS("")
  /\ parsed = <<>>

\* converter.parse_plan(arg) on the instance, whose fields persist between calls
CallParsePlan ==
  /\ converter' = parse_plan_on(converter, call.arg).conv
  /\ result' = parse_outcome(parse_plan_on(converter, call.arg))
  /\ call' = [call EXCEPT !.fn = "parse_plan"]
  /\ UNCHANGED <<parsed, connections, orchVars>>

\* plan_to_hints(arg): lines 206-217, a fresh converter
CallPlanToHints ==
  /\ result' = plan_to_hints(call.arg)
  /\ call' = [call EXCEPT !.fn = "plan_to_hints"]
  /\ UNCHANGED <<converter, parsed, connections, orchVars>>

\* plan_json_to_pg_hint(arg) in a process with hash seed call.seed
CallPlanJsonToPgHint ==
  /\ result' = plan_json_to_pg_hint(call.arg, call.seed)
  /\ call' = [call EXCEPT !.fn = "plan_json_to_pg_hint"]
  /\ UNCHANGED <<converter, parsed, connections, orchVars>>

NextParse ==
  \/ CallParsePlan
  \/ CallPlanToHints
  \/ CallPlanJsonToPgHint

SpecParse == InitParse /\ [][NextParse]_vars

(***************************************************************************)
(* One PlanToHintConverter instance on which parse_plan is called again    *)
(* and again.                                                              *)
(***************************************************************************)
\* the number of calls made on the instance
MaxCalls == 3

\* process_csv is not running
OrchIdle ==
  /\ csv = InputTable({}, 0, 0)
  /\ args = [use_hints |-> FALSE, iterations |-> 1, workers |-> 0]
  /\ pc = "start"
  /\ error = ""
  /\ df = NoFrame
  /\ futures = <<>>
  /\ work = <<>>
  /\ procs = <<>>
  /\ broken = FALSE
  /\ yielded = <<>>
  /\ writes = <<>>
  /\ out = [written |-> FALSE, table |-> NoFrame]

\* the payloads given to the instance: scans, joins, an index scan, a repeated
\* join, payloads that raise before and in the middle of the traversal
ReusePlans ==
  {ScanNode("Seq Scan", "a", "", ""),
   Obj("Plan" :> ScanNode("Seq Scan", "a", "c", "")),
   ScanNode("Index Scan", "b", "", "b_idx"),
   ScanNode("Seq Scan", "", "", ""),
   Text(TRUE, List(<<Obj("Plan" :> JoinOf("Hash Join", "a", "b"))>>)),
   JoinOf("Merge Join", "b", "a"),
   InnerNode("Hash Join", <<JoinOf("Hash Join", "a", "b"), ScanNode("CTE Scan", "", "c", "")>>),
   InnerNode("Nested Loop", <<ScanNode("Index Scan", "b", "", "b_idx"),
                              Obj(("Node Type" :> Str("Sort")) @@ ("Plans" :> Num(5)))>>),
   Text(FALSE, None),
   List(<<>>)}

\* the instance is constructed: lines 34-39
InitReuse ==
  /\ OrchIdle
  /\ converter = reset
  /\ connections = 0
  /\ call = NoCall
  /\ result = RetS("")
  /\ parsed = <<>>

\* converter.parse_plan(p) on the instance
ReuseParsePlan ==
  /\ Len(parsed) < MaxCalls
  /\ \E p \in ReusePlans :
       /\ converter' = parse_plan_on(converter, p).conv
       /\ result' = parse_outcome(parse_plan_on(converter, p))
       /\ call' = [fn |-> "parse_plan", arg |-> p, seed |-> <<>>]
       /\ parsed' = Append(parsed, p)
  /\ UNCHANGED <<connections, orchVars>>

NextReuse == ReuseParsePlan

SpecReuse == InitReuse /\ [][NextReuse]_vars

(***************************************************************************)
(* The entry points that compile a plan and then execute the query:        *)
(* worker_execute and execute_with_extracted_hints, called on their own.   *)
(***************************************************************************)
\* the plans given to the entry points: text as in a plan_json cell, parsed
\* JSON, an empty cell, and text that is not JSON
EntryPlans ==
  {Text(TRUE, Obj("Plan" :> JoinOf("Hash Join", "a", "b"))),
   Text(TRUE, List(<<Obj("Plan" :> InnerNode("Merge Join",
                       <<JoinOf("Hash Join", "a", "b"), ScanNode("Seq Scan", "a", "c", "")>>))>>)),
   Text(TRUE, Obj("Plan" :> ScanNode("Seq Scan", "a", "", ""))),
   Text(TRUE, Obj("Plan" :> ScanNode("Seq Scan", "", "", ""))),
   Text(TRUE, Obj("Plan" :> Obj("Node Type" :> Str("Result")))),
   Obj("Plan" :> JoinOf("Nested Loop", "b", "a")),
   List(<<Obj("Plan" :> Obj("Node Type" :> Str("Result")))>>),
   ScanNode("Index Scan", "b", "", "b_idx"),
   NaN,
   None,
   Text(FALSE, None)}

EntryArgs ==
  [query : {"SELECT 1"}, plan_json : EntryPlans, use_hints : BOOLEAN,
   iterations : 1..MaxIterations]

InitEntry ==
  /\ OrchIdle
  /\ converter = reset
  /\ connections = 0
  /\ call \in [fn : {"none"}, arg : EntryArgs, seed : HashSeeds, given : {<<>>}]
  /\ result = WorkerRet(Obj(<<>>), "none", 0)
  /\ parsed = <<>>

\* the outcomes the adapter gave to the calls that r made, in order
given_to(r, rs) == SubSeq(rs, 1, r.calls)

\* worker_execute(query, plan_json, use_hints, iterations) in a process with
\* hash seed call.seed; rs are the outcomes of the adapter calls it makes
CallWorkerExecute ==
  /\ \E rs \in [1..call.arg.iterations ->
                  adapter_outcomes(worker_hints(call.arg.plan_json, call.arg.use_hints,
                                                call.seed).val)] :
       /\ result' = worker_execute(call.arg.query, call.arg.plan_json, call.arg.use_hints,
                                   call.arg.iterations, call.seed, rs)
       /\ call' = [call EXCEPT !.fn = "worker_execute", !.given = given_to(result', rs)]
  /\ UNCHANGED <<converter, parsed, connections, orchVars>>

\* executor.execute_with_extracted_hints(query, plan_json); r is the outcome
\* of the adapter call it makes
CallExecuteWithExtractedHints ==
  /\ \E r \in execute_with_hints_outcomes :
       /\ result' = execute_with_extracted_hints(call.arg.query, call.arg.plan_json, r)
       /\ call' = [call EXCEPT !.fn = "execute_with_extracted_hints",
                                !.given = given_to(result', <<r>>)]
  /\ UNCHANGED <<converter, parsed, connections, orchVars>>

NextEntry ==
  \/ CallWorkerExecute
  \/ CallExecuteWithExtractedHints

SpecEntry == InitEntry /\ [][NextEntry]_vars

(***************************************************************************)
(* The adapter operations called one after the other on an executor.       *)
(***************************************************************************)
\* the number of operations called
MaxOps == 3

InitAdapter ==
  /\ OrchIdle
  /\ converter = reset
  /\ connections = 0
  /\ call = [fn |-> "none", arg |-> "SELECT 1", seed |-> <<>>, n |-> 0]
  /\ result = Ret(Obj(<<>>))
  /\ parsed = <<>>

\* the operation gave g: its connections left open stay open
adapter_returns(fn, g) ==
  /\ result' = g.out
  /\ connections' = connections + g.leaked
  /\ call' = [call EXCEPT !.fn = fn, !.n = call.n + 1]
  /\ UNCHANGED <<converter, parsed, orchVars>>

CallGetExecutionPlan ==
  /\ call.n < MaxOps
  /\ \E analyze \in BOOLEAN, s \in Sessions, a \in TimeVals, e \in TimeVals :
       adapter_returns("get_execution_plan", get_execution_plan(call.arg, analyze, s, a, e))

CallExecuteQuery ==
  /\ call.n < MaxOps
  /\ \E s \in Sessions, t \in TimeVals :
       adapter_returns("execute_query", execute_query(call.arg, s, t))

CallExecuteWithHints ==
  /\ call.n < MaxOps
  /\ \E s \in Sessions, s2 \in Sessions, a \in TimeVals, e \in TimeVals :
       adapter_returns("execute_with_hints",
                       execute_with_hints(call.arg, "/*+ SeqScan(a) */", s, s2, a, e))

NextAdapter ==
  \/ CallGetExecutionPlan
  \/ CallExecuteQuery
  \/ CallExecuteWithHints

SpecAdapter == InitAdapter /\ [][NextAdapter]_vars

(***************************************************************************)
(* Properties of process_csv.                                              *)
(***************************************************************************)
\* every future was collected: the loop of line 186 ended
AllCollected == pc \in {"save", "done"}

\* the tasks submitted for row idx
TasksOf(idx) == {f \in DOMAIN work : work[f].row = idx}

\* what a task's outcome is for its row: its execution_time_ms when it returned
\* a result without an error, a null marker when it returned an error or its
\* future holds an exception
TaskOutcome(item) ==
  IF item.kind = "result" /\ "error" \notin DOMAIN item.res.f
  THEN item.res.f["execution_time_ms"]
  ELSE NA

TimingCell(idx) == df.rows[idx][out_col]

\* C1: whatever the order in which the workers complete, once all futures have
\* been collected the timing cell of each row idx holds the outcome of the task
\* that was submitted for row idx (its execution_time_ms on success, a null
\* marker on error or crash), never the outcome of another row's task.
C1_RowHoldsOwnOutcome ==
  AllCollected =>
    \A idx \in DOMAIN df.rows :
      /\ TasksOf(idx) # {}
      /\ \A f \in TasksOf(idx) : TimingCell(idx) = TaskOutcome(work[f])

\* two rows whose tasks completed with different times and were collected in
\* the reverse of the order of submission
C1_Witness ==
  /\ pc = "done"
  /\ yielded = <<2, 1>>
  /\ work[1].row = 0 /\ work[1].res = TimeResult(6)
  /\ work[2].row = 1 /\ work[2].res = TimeResult(0)
  /\ TimingCell(0) = Num(6)
  /\ TimingCell(1) = Num(0)

\* C2: when the worker running row k's task suffers a fault that worker_execute
\* does not catch (the abrupt death of the worker process included), only row k
\* is marked failed: every other task, in flight or pending, is still executed
\* and gives its own result, and the batch goes on.
C2_CrashIsolated ==
  /\ error # "BrokenProcessPool"
  /\ \A f \in DOMAIN work :
       (work[f].state = "finished" /\ ~work[f].faulted) =>
         (work[f].kind = "result" /\ work[f].ran = 1)

\* the place of a task's state in Pending -> Dispatched -> terminal
Rank(state) ==
  CASE state = "pending" -> 0
    [] state = "running" -> 1
    [] state = "finished" -> 2

\* the futures the dict of line 181 pairs with row idx
FuturesOf(idx) == {f \in DOMAIN futures : futures[f] = idx}

C3_OneTaskPerRow ==
  /\ DOMAIN work = DOMAIN futures
  /\ \A idx \in DOMAIN df.rows :
       /\ Cardinality(FuturesOf(idx)) <= 1
       /\ FuturesOf(idx) = TasksOf(idx)
       /\ pc \in {"collect", "save", "done"} => Cardinality(FuturesOf(idx)) = 1
  /\ \A f \in DOMAIN work :
       /\ work[f].row \in DOMAIN df.rows
       /\ work[f].ran <= 1
       /\ work[f].state = "pending" => work[f].ran = 0 /\ work[f].kind = "none"
       /\ work[f].state = "running" => work[f].ran = 1 /\ work[f].kind = "none"
       /\ work[f].state = "finished" => work[f].kind \in {"result", "exception"}

C3_ForwardOnly ==
  /\ DOMAIN work \subseteq DOMAIN work'
  /\ \A f \in DOMAIN work :
       /\ work'[f].row = work[f].row
       /\ work'[f].ran >= work[f].ran
       /\ Rank(work'[f].state) >= Rank(work[f].state)
       /\ work[f].state = "finished" => work'[f] = work[f]

\* C3: exactly one task is submitted per input row, every task moves only
\* forward through Pending, Dispatched and one terminal state (a value, an
\* error, or lost to a crash), and no task is submitted again or executed a
\* second time after it fails.
C3_TaskLifecycle == []C3_OneTaskPerRow /\ [][C3_ForwardOnly]_vars

\* a finished run in which one task returned an error and the other was lost
\* to a fault of its worker, each executed once
C3_Witness ==
  /\ pc = "done"
  /\ Len(work) = 2
  /\ work[1].kind = "result" /\ "error" \in DOMAIN work[1].res.f
  /\ work[2].kind = "exception" /\ work[2].faulted
  /\ \A f \in DOMAIN work : work[f].ran = 1

C4_WrittenOnce ==
  /\ \A idx \in DOMAIN writes : writes[idx] <= 1
  /\ Cardinality({idx \in DOMAIN writes : writes[idx] = 1}) = Len(yielded)
  /\ AllCollected => \A idx \in DOMAIN writes : writes[idx] = 1

C4_OnlyCollector ==
  (pc # "start" /\ (writes' # writes \/ df' # df)) =>
    /\ pc = "collect" /\ pc' = "collect"
    /\ Len(yielded') = Len(yielded) + 1
    /\ Cardinality({idx \in DOMAIN writes : writes'[idx] # writes[idx]}) = 1
    /\ \A idx \in DOMAIN df.rows :
         writes'[idx] = writes[idx] => df'.rows[idx] = df.rows[idx]

\* C4: each row's timing cell is written exactly once during result
\* collection, and every write is a step of the single collecting loop, one row
\* at a time, so no two writes target the same row or happen concurrently.
C4_SingleWriter == []C4_WrittenOnce /\ [][C4_OnlyCollector]_vars

\* two rows collected, the second submitted first, each cell written once
C4_Witness ==
  /\ pc = "save"
  /\ DOMAIN writes = {0, 1}
  /\ writes[0] = 1 /\ writes[1] = 1
  /\ yielded = <<2, 1>>

C5_ErrorIsRowResult ==
  /\ \A f \in DOMAIN work :
       work[f].adapter_error =>
         /\ work[f].kind = "result"
         /\ Truthy(Get(work[f].res, "error", None))
         /\ f \in Range(yielded) => TimingCell(work[f].row) = NA
  /\ AllCollected => Range(yielded) = DOMAIN work
  /\ (AllCollected /\ ~broken) => \A f \in DOMAIN work : work[f].ran = 1

C5_OthersUntouched ==
  \A f \in DOMAIN work :
    (work'[f].adapter_error /\ ~work[f].adapter_error) =>
      /\ broken' = broken /\ pc' = pc /\ error' = error
      /\ \A g \in DOMAIN work \ {f} : work'[g] = work[g]

\* C5: when the execution adapter reports or raises an error for a row's query,
\* worker_execute returns an error result for that row only, process_csv
\* records a null marker for that row, and the remaining rows are still
\* dispatched and collected.
C5_AdapterErrorRowScoped == []C5_ErrorIsRowResult /\ [][C5_OthersUntouched]_vars

\* the connection could not be opened for row 0's query: its cell is null and
\* row 1, dispatched afterwards, has its time
C5_Witness ==
  /\ pc = "done"
  /\ Len(work) = 2
  /\ work[1].adapter_error /\ work[1].res = ErrorResult("OperationalError")
  /\ TimingCell(0) = NA
  /\ work[2].ran = 1 /\ work[2].res = TimeResult(6)
  /\ TimingCell(1) = Num(6)

\* a plan_json cell that is absent or is not a well-formed plan
MalformedOrAbsent(plan_json) ==
  plan_json \in {None, NaN, Text(FALSE, None), Text(TRUE, Num(5)),
                 Text(TRUE, Obj("Plan" :> Obj("Node Type" :> None)))}

\* C6: for a row with use_hints whose plan payload is malformed or absent,
\* worker_execute derives an empty directive and runs the query through the
\* unhinted path (execute_query / benchmark_query): the plan fault does not
\* become the row's error.
C6_MalformedPlanRunsUnhinted ==
  \A f \in DOMAIN work :
    (args.use_hints /\ work[f].kind = "result" /\ MalformedOrAbsent(work[f].plan_json)) =>
      work[f].op \in {"execute_query", "benchmark_query"}

\* C7: process_csv accepts any input table that has a 'query' column, and the
\* SQL text submitted to the worker for each row is the row's value in the
\* 'query' column.
C7_QueryColumnSubmitted ==
  /\ "query" \in csv.cols => error # "KeyError"
  /\ \A f \in DOMAIN work : work[f].query = csv.rows[work[f].row]["query"]

\* C8: if the SQL-text column is absent or the worker count is invalid,
\* process_csv fails before any task is submitted and writes no output;
\* conversely a table that has the SQL-text column is not rejected.
C8_FailFast ==
  /\ ("query" \notin csv.cols \/ args.workers <= 0) =>
       /\ pc \in {"start", "pool", "raised"}
       /\ pc = "raised" => error = "ValueError"
       /\ work = <<>> /\ futures = <<>>
       /\ ~out.written
  /\ ("query" \in csv.cols /\ args.workers > 0) => error \notin {"ValueError", "KeyError"}

\* C9: the output table has the input's rows in the input's order, every input
\* column unchanged, and differs from the input only by the added timing
\* column, whose cells are a number of milliseconds or a null marker.
C9_OutputIsInputPlusTiming ==
  out.written =>
    /\ DOMAIN out.table.rows = DOMAIN csv.rows
    /\ \A i \in DOMAIN csv.rows :
         /\ \A c \in csv.cols : out.table.rows[i][c] = csv.rows[i][c]
         /\ out.table.rows[i][out_col] = NA \/ out.table.rows[i][out_col].j = "num"
    /\ out.table.cols = csv.cols \cup {out_col}

\* C10: when the payload is not valid structured data (text that is not JSON,
\* an empty sequence, a value that is neither an object nor a sequence),
\* parse_plan / plan_to_hints return to the caller and do not raise.
C10_UnparseableReturned ==
  (call.fn \in {"parse_plan", "plan_to_hints"} /\ call.arg \in InvalidPayloads) =>
    ~result.raised

(***************************************************************************)
(* Properties of the plan compiler of plan_to_hints.py.                    *)
(***************************************************************************)
\* the call made was parse_plan, on the converter or through plan_to_hints
CallIsParse == call.fn \in {"parse_plan", "plan_to_hints"}

\* the payload of the call is one of the accepted shapes of plan node P
ArgIsShapeOf(P) == call.arg \in Shapes(P)

\* the node a payload wraps: inside the text, the sequence and the Plan field
Unwrapped(v) ==
  LET parsed_text == IF v.j = "text" THEN v.val ELSE v
      entry == IF parsed_text.j = "list" /\ parsed_text.items # <<>>
               THEN parsed_text.items[1] ELSE parsed_text
  IN IF entry.j = "obj" /\ "Plan" \in DOMAIN entry.f THEN entry.f["Plan"] ELSE entry
\* the payload of the call is a shape of its node, which is one of the nodes S
ArgIsPlanIn(S) == Unwrapped(call.arg) \in S /\ ArgIsShapeOf(Unwrapped(call.arg))
ArgNode == Unwrapped(call.arg)

\* C11: for any plan node P, parse_plan gives the same directive for the bare
\* node P, for {"Plan": P}, for [{"Plan": P}] and for the serialized text of
\* either: every accepted shape is normalized to the tree rooted at P.
C11_ShapesNormalized ==
  CallIsParse =>
    (ArgIsPlanIn(PlanNodes \cup BadNodes) => result = plan_to_hints(ArgNode))

\* the serialized single-element sequence around a hash join of a and b
C11_Witness ==
  /\ call.fn = "parse_plan"
  /\ call.arg = Text(TRUE, List(<<Obj("Plan" :> JoinOf("Hash Join", "a", "b"))>>))
  /\ result = RetS("/*+ SeqScan(a) SeqScan(b) HashJoin(a b) */")

\* The tokens the hint compiler is specified to emit for a plan tree.
Kids(n) == IF "Plans" \in DOMAIN n.f THEN n.f["Plans"].items ELSE <<>>
KindOf(n) == n.f["Node Type"].s
\* the fixed tables from node kinds to hint operators
ScanOperator(kind) ==
  CASE kind = "Seq Scan" -> "SeqScan"
    [] kind = "Index Scan" -> "IndexScan"
    [] kind = "Index Only Scan" -> "IndexOnlyScan"
    [] kind \in {"Bitmap Heap Scan", "Bitmap Index Scan"} -> "BitmapScan"
    [] kind = "Tid Scan" -> "TidScan"
    [] kind = "Tid Range Scan" -> "TidRangeScan"
    [] OTHER -> ""
JoinOperator(kind) ==
  CASE kind = "Nested Loop" -> "NestLoop"
    [] kind = "Hash Join" -> "HashJoin"
    [] kind = "Merge Join" -> "MergeJoin"
    [] OTHER -> ""
IsScanKind(n) == ScanOperator(KindOf(n)) # ""
IsJoinKind(n) == JoinOperator(KindOf(n)) # ""
\* the table identifier: the alias when present, otherwise the relation name
TableId(n) ==
  IF "Alias" \in DOMAIN n.f THEN n.f["Alias"].s
  ELSE IF "Relation Name" \in DOMAIN n.f THEN n.f["Relation Name"].s
  ELSE ""
HasIndex(n) == "Index Name" \in DOMAIN n.f

RECURSIVE TablesUnder(_), TablesUnderAll(_, _)
\* the tables of the scans anywhere in the subtree of n, children left to right
TablesUnder(n) ==
  TablesUnderAll(Kids(n), 1)
  \o (IF IsScanKind(n) /\ TableId(n) # "" THEN <<TableId(n)>> ELSE <<>>)
TablesUnderAll(kids, i) ==
  IF i > Len(kids) THEN <<>> ELSE TablesUnder(kids[i]) \o TablesUnderAll(kids, i + 1)

\* the tokens of node n itself
OwnScanTokens(n) ==
  IF IsScanKind(n) /\ TableId(n) # ""
  THEN <<ScanOperator(KindOf(n)) \o "(" \o TableId(n) \o ")">>
  ELSE <<>>
OwnIndexTokens(n) ==
  IF IsScanKind(n) /\ TableId(n) # "" /\ HasIndex(n)
  THEN <<"IndexScan(" \o TableId(n) \o " " \o n.f["Index Name"].s \o ")">>
  ELSE <<>>
OwnJoinTokens(n) ==
  IF IsJoinKind(n) /\ Len(Kids(n)) >= 2 /\ Len(TablesUnderAll(Kids(n), 1)) >= 2
  THEN <<JoinOperator(KindOf(n)) \o "(" \o StrJoin(TablesUnderAll(Kids(n), 1), " ") \o ")">>
  ELSE <<>>

RECURSIVE ScanTokensOf(_), ScanTokensOfAll(_, _)
ScanTokensOf(n) == ScanTokensOfAll(Kids(n), 1) \o OwnScanTokens(n)
ScanTokensOfAll(kids, i) ==
  IF i > Len(kids) THEN <<>> ELSE ScanTokensOf(kids[i]) \o ScanTokensOfAll(kids, i + 1)

RECURSIVE JoinTokensOf(_), JoinTokensOfAll(_, _)
JoinTokensOf(n) == JoinTokensOfAll(Kids(n), 1) \o OwnJoinTokens(n)
JoinTokensOfAll(kids, i) ==
  IF i > Len(kids) THEN <<>> ELSE JoinTokensOf(kids[i]) \o JoinTokensOfAll(kids, i + 1)

RECURSIVE IndexTokensOf(_), IndexTokensOfAll(_, _)
IndexTokensOf(n) == IndexTokensOfAll(Kids(n), 1) \o OwnIndexTokens(n)
IndexTokensOfAll(kids, i) ==
  IF i > Len(kids) THEN <<>> ELSE IndexTokensOf(kids[i]) \o IndexTokensOfAll(kids, i + 1)

\* the elements of xs at their first occurrence
FirstOccurrences(xs) ==
  LET keep == {i \in DOMAIN xs : \A j \in 1..(i - 1) : xs[j] # xs[i]}
      RECURSIVE From(_)
      From(i) == IF i > Len(xs) THEN <<>>
                 ELSE (IF i \in keep THEN <<xs[i]>> ELSE <<>>) \o From(i + 1)
  IN From(1)

\* the directive that renders a sequence of tokens
Directive(tokens) ==
  IF tokens = <<>> THEN "" ELSE "/*+ " \o StrJoin(tokens, " ") \o " */"

\* C12: the directive lists all scan tokens, then all join tokens, then all
\* index tokens, each group in post-order discovery order (children left to
\* right before their parent); a hash join over sequential scans of a and b
\* compiles to exactly "/*+ SeqScan(a) SeqScan(b) HashJoin(a b) */".
C12_TokenOrder ==
  CallIsParse =>
    /\ ArgIsPlanIn(PlanNodes) =>
         result = RetS(Directive(ScanTokensOf(ArgNode)
                                 \o FirstOccurrences(JoinTokensOf(ArgNode))
                                 \o IndexTokensOf(ArgNode)))
    /\ ArgIsShapeOf(JoinOf("Hash Join", "a", "b")) =>
         result.val = "/*+ SeqScan(a) SeqScan(b) HashJoin(a b) */"

\* a hash join over a nested loop of a and b and an index scan of b: the three
\* scans, the inner join before the enclosing join, then the index token
C12_Witness ==
  /\ call.fn = "plan_to_hints"
  /\ call.arg = InnerNode("Hash Join", <<JoinOf("Nested Loop", "a", "b"),
                                         ScanNode("Index Scan", "b", "", "b_idx")>>)
  /\ result.val = "/*+ SeqScan(a) SeqScan(b) IndexScan(b) NestLoop(a b) HashJoin(a b b) IndexScan(b b_idx) */"

\* the numbers of scan nodes and of join nodes in the tree of n
RECURSIVE NumScanNodes(_), NumScanNodesAll(_, _)
NumScanNodes(n) == (IF IsScanKind(n) THEN 1 ELSE 0) + NumScanNodesAll(Kids(n), 1)
NumScanNodesAll(kids, i) ==
  IF i > Len(kids) THEN 0 ELSE NumScanNodes(kids[i]) + NumScanNodesAll(kids, i + 1)
RECURSIVE NumJoinNodes(_), NumJoinNodesAll(_, _)
NumJoinNodes(n) == (IF IsJoinKind(n) THEN 1 ELSE 0) + NumJoinNodesAll(Kids(n), 1)
NumJoinNodesAll(kids, i) ==
  IF i > Len(kids) THEN 0 ELSE NumJoinNodes(kids[i]) + NumJoinNodesAll(kids, i + 1)

\* the payload is a shape of a plan with exactly one scan node and no join node
OneScanNoJoin ==
  ArgIsPlanIn(PlanNodes) /\ NumScanNodes(ArgNode) = 1 /\ NumJoinNodes(ArgNode) = 0

\* the directives that hold exactly one scan token and no join token (with or
\* without an index token)
ScanTokens ==
  {op \o "(" \o t \o ")" :
     op \in {"SeqScan", "IndexScan", "IndexOnlyScan", "BitmapScan", "TidScan", "TidRangeScan"},
     t \in TableNames}
IndexTokens == {"IndexScan(" \o t \o " b_idx)" : t \in TableNames}
OneScanDirectives ==
  {Directive(<<tok>>) : tok \in ScanTokens}
  \cup {Directive(<<tok, idx>>) : tok \in ScanTokens, idx \in IndexTokens}

\* C13 as stated: for every plan that contains exactly one scan node and no
\* join node, the directive contains exactly one scan token and no join token.
C13_OneScanOneToken ==
  CallIsParse =>
    (OneScanNoJoin => (~result.raised /\ result.val \in OneScanDirectives))

\* C13 amended: for every plan that contains exactly one scan node and no join
\* node, the directive contains exactly one scan token and no join token when
\* the scan node has a table identifier, and is empty when it has none.
C13_OneIdentifiedScanOneToken ==
  CallIsParse =>
    (OneScanNoJoin =>
       /\ ~result.raised
       /\ TablesUnder(ArgNode) # <<>> => result.val \in OneScanDirectives
       /\ TablesUnder(ArgNode) = <<>> => result.val = "")

\* a sort over one sequential scan of a under the alias c
C13_Witness ==
  /\ call.fn = "plan_to_hints"
  /\ call.arg = Text(TRUE, InnerNode("Sort", <<ScanNode("Seq Scan", "a", "c", "")>>))
  /\ result = RetS("/*+ SeqScan(c) */")

\* C14: for a join node of a mapped kind, the compiler emits one join token
\* whose operands are the tables found anywhere under its first child followed
\* by those under its later children, in child order, exactly when it has at
\* least two children and the combined list has at least two tables; otherwise
\* it emits no join token for that node.  (The root is visited last, after the
\* joins below it.)
C14_JoinOperands ==
  call.fn = "parse_plan" =>
    ((ArgIsPlanIn(PlanNodes) /\ IsJoinKind(ArgNode)) =>
       /\ ~result.raised
       /\ converter.join_hints =
            JoinTokensOfAll(Kids(ArgNode), 1)
            \o (IF Len(Kids(ArgNode)) >= 2 /\ Len(TablesUnderAll(Kids(ArgNode), 1)) >= 2
                THEN <<JoinOperator(KindOf(ArgNode)) \o "("
                       \o StrJoin(TablesUnderAll(Kids(ArgNode), 1), " ") \o ")">>
                ELSE <<>>))

\* a hash join whose second child is a sort over a scan under the alias c: the
\* table below the sort is an operand, after the tables of the first child
C14_Witness ==
  /\ call.fn = "parse_plan"
  /\ call.arg = InnerNode("Hash Join",
                  <<JoinOf("Nested Loop", "a", "b"),
                    InnerNode("Sort", <<ScanNode("Seq Scan", "a", "c", "")>>)>>)
  /\ converter.join_hints = <<"NestLoop(a b)", "HashJoin(a b c)">>

\* C15: a scan node of a mapped kind that has a table identifier emits exactly
\* one scan token, with the mapped operator and the alias when present,
\* otherwise the relation name, and one index token IndexScan(table index)
\* exactly when the node carries an index name; a scan node without any table
\* identifier emits no token at all.
C15_ScanTokens ==
  CallIsParse =>
    ((ArgIsPlanIn(ScanNodes) /\ IsScanKind(ArgNode)) =>
       LET P == ArgNode
           table == IF "Alias" \in DOMAIN P.f THEN P.f["Alias"].s
                    ELSE IF "Relation Name" \in DOMAIN P.f THEN P.f["Relation Name"].s
                    ELSE ""
           scan == ScanOperator(KindOf(P)) \o "(" \o table \o ")"
       IN result =
            RetS(IF table = "" THEN ""
                 ELSE IF "Index Name" \in DOMAIN P.f
                      THEN "/*+ " \o scan \o " IndexScan(" \o table \o " "
                           \o P.f["Index Name"].s \o ") */"
                 ELSE "/*+ " \o scan \o " */"))

\* an index scan of b with the index b_idx: a scan token and an index token
C15_Witness ==
  /\ call.fn = "plan_to_hints"
  /\ call.arg = Obj("Plan" :> ScanNode("Index Scan", "b", "", "b_idx"))
  /\ result = RetS("/*+ IndexScan(b) IndexScan(b b_idx) */")

\* the number of times x occurs in xs
Occurrences(xs, x) == Cardinality({i \in DOMAIN xs : xs[i] = x})

\* C16: when traversal produces the same rendered join token more than once,
\* the directive contains it exactly once, at the position of its first
\* discovery; join tokens that differ as strings, even with the same operands
\* in another order, are all kept.
C16_JoinTokensDeduplicated ==
  (call.fn = "parse_plan" /\ ~result.raised) =>
    /\ \A t \in Range(converter.join_hints) :
         Occurrences(FirstOccurrences(converter.join_hints), t) = 1
    /\ result.val =
         Directive(converter.scan_hints
                   \o FirstOccurrences(converter.join_hints)
                   \o [i \in DOMAIN converter.index_hints |->
                         "IndexScan(" \o converter.index_hints[i][1] \o " "
                         \o converter.index_hints[i][2] \o ")"])

\* the same hash join twice with a merge join between them: the second
\* occurrence is dropped, the first keeps its place
C16_Witness ==
  /\ call.fn = "parse_plan"
  /\ call.arg = InnerNode("Sort", <<JoinOf("Hash Join", "a", "b"), JoinOf("Merge Join", "a", "b"),
                                    JoinOf("Hash Join", "a", "b")>>)
  /\ converter.join_hints = <<"HashJoin(a b)", "MergeJoin(a b)", "HashJoin(a b)">>
  /\ result.val = "/*+ SeqScan(a) SeqScan(b) SeqScan(a) SeqScan(b) SeqScan(a) SeqScan(b) HashJoin(a b) MergeJoin(a b) */"

\* C17: compiling the same plan twice yields the same directive, also when one
\* converter instance is reused: after any sequence of earlier parse_plan
\* calls on other plans, parse_plan(P) gives what it gives on a fresh
\* converter, and no token of an earlier call is left in the instance.
C17_ReuseIsFresh ==
  parsed # <<>> =>
    /\ result = plan_to_hints(call.arg)
    /\ converter = parse_plan(call.arg).conv

\* the merge join compiled after a plan that raised in the middle of its
\* traversal and after the merge join itself
C17_Witness ==
  /\ Len(parsed) = 3
  /\ parsed[1] = JoinOf("Merge Join", "b", "a")
  /\ parsed[2] \notin {parsed[1]} /\ parse_plan(parsed[2]).raised
  /\ parse_plan(parsed[2]).conv.scan_hints # <<>>
  /\ parsed[3] = parsed[1]
  /\ result = RetS("/*+ SeqScan(b) SeqScan(a) MergeJoin(b a) */")

\* a node of an unrecognized kind with n as its only child
Wrapped(n) == InnerNode("Sort", <<n>>)
\* n with its second child below a node of an unrecognized kind
SecondWrapped(n) ==
  InnerNode(KindOf(n), [i \in DOMAIN Kids(n) |-> IF i = 2 THEN Wrapped(Kids(n)[i]) ELSE Kids(n)[i]])

\* the only child of n, and n with the only child of its second child in the
\* place of that child
OnlyChild(n) == Kids(n)[1]
SecondUnwrapped(n) ==
  InnerNode(KindOf(n), [i \in DOMAIN Kids(n) |-> IF i = 2 THEN OnlyChild(Kids(n)[i]) ELSE Kids(n)[i]])
\* the plan of the call is a node of an unrecognized kind above a subtree, at
\* the root or at the second child of the root
ArgIsWrapped == Len(Kids(ArgNode)) = 1 /\ ArgNode = Wrapped(OnlyChild(ArgNode))
ArgIsSecondWrapped ==
  /\ Len(Kids(ArgNode)) >= 2
  /\ Len(Kids(Kids(ArgNode)[2])) = 1
  /\ ArgNode = SecondWrapped(SecondUnwrapped(ArgNode))

\* C18: inserting a node of an unrecognized kind above any subtree, with the
\* subtree as its only child, does not change the directive: the node adds no
\* token, its children are traversed, and the tables under it still count
\* toward the operands of enclosing joins.
C18_UnrecognizedPassThrough ==
  CallIsParse =>
    (ArgIsPlanIn(PlanNodes) =>
       /\ ArgIsWrapped => result = plan_to_hints(OnlyChild(ArgNode))
       /\ ArgIsSecondWrapped => result = plan_to_hints(SecondUnwrapped(ArgNode)))

\* a sort inserted above the second operand of a hash join: the scan below it
\* is still an operand of the join
C18_Witness ==
  /\ call.fn = "plan_to_hints"
  /\ call.arg = SecondWrapped(InnerNode("Hash Join",
                  <<JoinOf("Merge Join", "a", "b"), ScanNode("Seq Scan", "a", "c", "")>>))
  /\ result = RetS("/*+ SeqScan(a) SeqScan(b) SeqScan(c) MergeJoin(a b) HashJoin(a b c) */")
  /\ result = plan_to_hints(InnerNode("Hash Join",
                  <<JoinOf("Merge Join", "a", "b"), ScanNode("Seq Scan", "a", "c", "")>>))

(***************************************************************************)
(* Properties of the entry points.                                         *)
(***************************************************************************)
\* the directive the entry point of the call compiled from its plan, if it
\* compiled one: worker_execute compiles only with use_hints and a truthy plan
CompiledDirective ==
  IF call.fn = "worker_execute"
  THEN worker_hints(call.arg.plan_json, call.arg.use_hints, call.seed)
  ELSE plan_to_hints(call.arg.plan_json)
CompiledEmpty ==
  /\ call.fn \in {"worker_execute", "execute_with_extracted_hints"}
  /\ call.fn = "worker_execute" => (call.arg.use_hints /\ Truthy(call.arg.plan_json))
  /\ CompiledDirective = RetS("")
\* the adapter operations that run the query without a directive:
\* execute_query, directly or from benchmark_query
PlainOps == {"execute_query", "benchmark_query"}

\* C19: when the directive compiled from the plan is the empty string, the
\* entry point (worker_execute or execute_with_extracted_hints) still executes
\* the query, without a directive: it makes at least one plain adapter call
\* instead of returning an error without running anything.
C19_EmptyDirectiveStillExecutes ==
  CompiledEmpty => (result.calls >= 1 /\ result.op \in PlainOps)

\* the task succeeded: worker_execute returned a timing
Succeeded == ~result.raised /\ "execution_time_ms" \in DOMAIN result.res.f

\* C20: worker_execute calls only execute_with_hints when the directive of the
\* row is non-empty and only execute_query (directly or through
\* benchmark_query) otherwise, and a call that succeeds made exactly one
\* adapter call when iterations is 1 and exactly iterations calls when
\* iterations > 1.
C20_OperationAndCallCount ==
  call.fn = "worker_execute" =>
    /\ (~CompiledDirective.raised /\ CompiledDirective.val # "")
         => result.op = "execute_with_hints"
    /\ (~CompiledDirective.raised /\ CompiledDirective.val = "")
         => result.op \in PlainOps
    /\ CompiledDirective.raised => result.calls = 0
    /\ Succeeded =>
         result.calls = (IF call.arg.iterations > 1 THEN call.arg.iterations ELSE 1)

\* a row without directive benchmarked over several iterations, all of which
\* succeeded
C20_Witness ==
  /\ call.fn = "worker_execute"
  /\ call.arg.iterations > 1
  /\ CompiledDirective = RetS("")
  /\ Succeeded
  /\ result.op = "benchmark_query"
  /\ result.calls = call.arg.iterations

\* the adapter call gave a result without error marker
NoError(r) == ~r.raised /\ ~Truthy(Get(r.val, "error", None))
\* the timing fields of an adapter result, in the order of resolution
TimingFields == <<"actual_total_time", "execution_time", "execution_time_ms">>
\* the fields of res that are present with a non-null value
NonNullFields(res) ==
  SelectSeq(TimingFields, LAMBDA k : k \in DOMAIN res.f /\ res.f[k] # None)
\* the first timing field with a non-null value
FirstNonNull(res) == res.f[NonNullFields(res)[1]].v
\* a call of worker_execute on a hinted path, every adapter call of which gave
\* a result without error
HintedAllReturned ==
  /\ call.fn = "worker_execute"
  /\ result.op = "execute_with_hints"
  /\ call.given # <<>>
  /\ \A i \in DOMAIN call.given : NoError(call.given[i])

\* C21: on the hinted paths of worker_execute the timing taken from an adapter
\* result is the first of actual_total_time, execution_time, execution_time_ms
\* whose value is non-null, a value of 0 included: the task returns that value,
\* or over several iterations the mean of those values.
C21_FirstNonNullTiming ==
  (HintedAllReturned /\ \A i \in DOMAIN call.given : NonNullFields(call.given[i].val) # <<>>) =>
    /\ Len(call.given) = (IF call.arg.iterations > 1 THEN call.arg.iterations ELSE 1)
    /\ result.res =
         TimeResult(Sum([i \in DOMAIN call.given |-> FirstNonNull(call.given[i].val)])
                    \div Len(call.given))

\* a call of worker_execute that ran the query itself (execute_query or
\* execute_with_hints), every adapter call of which gave a result without error
AdapterCallsSucceeded ==
  /\ call.fn = "worker_execute"
  /\ result.op \in {"execute_query", "execute_with_hints"}
  /\ call.given # <<>>
  /\ \A i \in DOMAIN call.given : NoError(call.given[i])
\* none of the three timing fields is present in the adapter result
NoTimingField(res) == \A i \in DOMAIN TimingFields : TimingFields[i] \notin DOMAIN res.f

\* C22: a task whose adapter calls succeeded fails with "No timing value found"
\* exactly when none of actual_total_time, execution_time, execution_time_ms
\* is present in an adapter result; when one of them is present in every
\* result, the task returns a timing value and no error.
C22_NoTimingOnlyWhenAbsent ==
  AdapterCallsSucceeded =>
    /\ (result.res = ErrorResult("No timing value found"))
         <=> (\E i \in DOMAIN call.given : NoTimingField(call.given[i].val))
    /\ (\A i \in DOMAIN call.given : ~NoTimingField(call.given[i].val)) => Succeeded

\* the repetitions that errored: the adapter call raised or gave an error marker
Errored == {i \in DOMAIN call.given : ~NoError(call.given[i])}

\* C23: with iterations > 1, on the hinted and on the unhinted path, when a
\* repetition of the query errors the task returns an error and no timing
\* value, and the failing repetition is the last one run.
C23_NoPartialAverage ==
  (call.fn = "worker_execute" /\ call.arg.iterations > 1 /\ Errored # {}) =>
    /\ ~result.raised
    /\ "error" \in DOMAIN result.res.f
    /\ "execution_time_ms" \notin DOMAIN result.res.f
    /\ Errored = {result.calls}
    /\ Len(call.given) = result.calls

\* a hinted task whose first repetition succeeded and whose second failed
C23_Witness ==
  /\ call.fn = "worker_execute"
  /\ call.arg.iterations > 1
  /\ result.op = "execute_with_hints"
  /\ Len(call.given) = 2
  /\ NoError(call.given[1]) /\ timing_of(call.given[1].val) # None
  /\ ~call.given[2].raised /\ Truthy(Get(call.given[2].val, "error", None))
  /\ result.res = Obj("error" :> call.given[2].val.f["error"])

(***************************************************************************)
(* Properties of the adapter operations.                                   *)
(***************************************************************************)
AdapterOps == {"get_execution_plan", "execute_query", "execute_with_hints"}

\* C24: every adapter operation closes every connection it opened before
\* control leaves the call, on every exit path: after any sequence of adapter
\* operations no connection is left open.
C24_NoConnectionLeftOpen ==
  call.fn \in AdapterOps => connections = 0

\* the fields of a success payload and the error marker
PayloadFields == {"actual_total_time", "execution_time", "execution_time_ms", "estimated_cost"}
HasPayload(v) == DOMAIN v.f \cap PayloadFields # {}
HasErrorMarker(v) == "error" \in DOMAIN v.f

\* C25: every adapter operation returns a result that is either a success
\* payload or an error marker, never both: a failure during the call, a failed
\* attempt to open the connection included, is returned as an error marker and
\* not raised out of the operation.
C25_ReturnsPayloadOrError ==
  call.fn \in AdapterOps =>
    /\ ~result.raised
    /\ HasPayload(result.val) # HasErrorMarker(result.val)

(***************************************************************************)
(* Properties relating the two compilers.                                  *)
(***************************************************************************)
\* the call is the batch worker's compiler on the text of a plan of the model
BatchCompiledPlan ==
  /\ call.fn = "plan_json_to_pg_hint"
  /\ call.arg.j = "text"
  /\ ArgIsPlanIn(PlanNodes)

\* C26: for every plan payload, the directive the batch worker applies
\* (plan_json_to_pg_hint) equals the directive PlanToHintConverter.parse_plan
\* produces for the same payload: same tokens, operators, tables and order.
C26_BatchMatchesConverter ==
  BatchCompiledPlan => result = parse_outcome(parse_plan(call.arg))

\* C30: the directive the batch worker derives is a function of the payload
\* alone: the derivation in a worker process with any other hash seed gives
\* the same token sequence, the order of the scan tokens included.
C30_DeterministicDirective ==
  BatchCompiledPlan =>
    \A seed \in HashSeeds : plan_json_to_pg_hint(call.arg, seed) = result

(***************************************************************************)
(* Properties of the dispatch in process_csv.                              *)
(***************************************************************************)
\* the tasks a worker process is executing
Executing == {f \in DOMAIN work : work[f].state = "running"}

\* C27: in process_csv every task is submitted to the pool before the first
\* result is collected, and at no time are more than workers tasks executing.
C27_SubmitAllBeforeCollect ==
  /\ yielded # <<>> =>
       /\ Len(futures) = NumRows(df)
       /\ {work[f].row : f \in DOMAIN work} = DOMAIN df.rows
  /\ Cardinality(Executing) <= args.workers
  /\ \A f \in Executing : \E w \in DOMAIN procs : procs[w] = f

\* two rows and one worker: the first result was collected while the second
\* task, submitted before, is executing
C27_Witness ==
  /\ NumRows(df) = 2
  /\ args.workers = 1
  /\ Len(yielded) = 1
  /\ Cardinality(Executing) = 1

(***************************************************************************)
(* Properties of a task whose query never returns.                         *)
(***************************************************************************)
\* future f is the task of the query that never returns and a worker took it
HungRunning(f) ==
  f \in DOMAIN work /\ NeverReturns(work[f]) /\ work[f].state = "running"
\* every other task was executed once and has finished
OthersExecuted ==
  \A f \in DOMAIN work :
    ~NeverReturns(work[f]) => (work[f].state = "finished" /\ work[f].ran = 1)

\* C28: a task whose query never returns stays dispatched for ever: the
\* orchestrator never times it out or cancels it and does not leave its loop
\* while the task runs; the task occupies exactly one worker process; and
\* when there are at least two workers every other task is still executed.
C28_HungTaskOccupiesOneWorker ==
  /\ \A f \in 1..MaxRows :
       [](HungRunning(f) =>
            /\ Cardinality({w \in DOMAIN procs : procs[w] = f}) = 1
            /\ pc \notin {"save", "done"}
            /\ ~out.written)
  /\ \A f \in 1..MaxRows : [](HungRunning(f) => []HungRunning(f))
  /\ []((pc = "collect" /\ args.workers >= 2) => <>OthersExecuted)

\* two workers: the task that never returns is running in one of them and the
\* other task has finished and was collected
C28_Witness ==
  /\ args.workers = 2
  /\ NumRows(df) = 2
  /\ Len(work) = 2
  /\ HungRunning(1)
  /\ work[2].state = "finished" /\ work[2].ran = 1
  /\ yielded = <<2>>
  /\ pc = "collect"

(***************************************************************************)
(* Termination of process_csv.                                             *)
(***************************************************************************)
\* process_csv was called on a table with the query column and with at least
\* one worker
ValidCall == pc = "start" /\ "query" \in csv.cols /\ args.workers >= 1
\* every row has its task, every task is in a terminal state, every timing
\* cell was assigned, the output table is written and process_csv returned
RanToCompletion ==
  /\ pc = "done"
  /\ out.written
  /\ \A idx \in DOMAIN df.rows : TasksOf(idx) # {}
  /\ \A f \in DOMAIN work : work[f].state = "finished"
  /\ \A idx \in DOMAIN writes : writes[idx] >= 1

\* C29: when every adapter call of every worker returns or raises, then for
\* any number of rows and any worker count of at least 1 every task reaches a
\* terminal state, every row's timing cell is written and process_csv writes
\* the output table and returns, whatever successes, errors and crashes the
\* tasks produce.
C29_RunsToCompletion == ValidCall ~> RanToCompletion

====
